---- MODULE Spec2Model ----
(***************************************************************************)
(* Model of helper-scripts/confluence_pdf_downloader.py: the paginated     *)
(* listing of a space (get_space_pages), the per-page export cascade       *)
(* (get_page_content_as_pdf, get_page_html_content, html_to_pdf), the      *)
(* file naming (sanitize_filename) and the tallying loop                   *)
(* (download_all_pages).  Titles and file names are sequences of           *)
(* one-character strings, response bodies and file contents are tokens;    *)
(* the remote service, the renderer and the file system are environment    *)
(* choices made at the step that calls them.                               *)
(***************************************************************************)
EXTENDS Integers, Sequences, FiniteSets, TLC

\* ------------------------------------------------------------------ bounds
MaxPages == 3
MaxLimit == 2
MaxRuns == 2
MaxPre == 1
MaxPost == 2

PageIds == {1, 2}

\* ------------------------------------------------------- program constants
\* filename.strip()[:200]
MaxFilenameLen == 200

\* invalid_chars = '<>:"/\\|?*', in the order the loop visits them
invalid_chars == <<"<", ">", ":", "\"", "/", "\\", "|", "?", "*">>

\* what str.strip() removes (the ASCII part of it)
Whitespace == {" ", "\t", "\n"}

\* the media type the export responses are tested against
PdfMediaType == <<"application/pdf">>

None == "None"
EmptyBytes == ""

Min(a, b) == IF a < b THEN a ELSE b

\* ------------------------------------------------------- sanitize_filename
\* str.replace(char, '_')
Replace(s, c) == [k \in 1..Len(s) |-> IF s[k] = c THEN "_" ELSE s[k]]

RECURSIVE ReplaceInvalidChars(_, _)
\* for char in invalid_chars: filename = filename.replace(char, '_')
ReplaceInvalidChars(s, k) ==
    IF k > Len(invalid_chars) THEN s
    ELSE ReplaceInvalidChars(Replace(s, invalid_chars[k]), k + 1)

RECURSIVE LStrip(_)
LStrip(s) == IF s # <<>> /\ Head(s) \in Whitespace THEN LStrip(Tail(s)) ELSE s

RECURSIVE RStrip(_)
RStrip(s) ==
    IF s # <<>> /\ s[Len(s)] \in Whitespace
    THEN RStrip(SubSeq(s, 1, Len(s) - 1))
    ELSE s

\* str.strip()
Strip(s) == RStrip(LStrip(s))

\* the slice taken one character too long
Truncate_OneMore(s, n) == SubSeq(s, 1, Min(Len(s), n + 1))

\* s[:n]
Truncate(s, n) == SubSeq(s, 1, Min(Len(s), n))

sanitize_filename(filename) ==
    Truncate(Strip(ReplaceInvalidChars(filename, 1)), MaxFilenameLen)

\* f"{safe_title}_{page_id}.pdf" / f"{safe_title}_{page_id}.html"
OutputFilename(title, page_id, ext) ==
    sanitize_filename(title) \o <<"_">> \o page_id \o <<ext>>

\* ------------------------------------------------------------ the remote
\* page['id'] and page['title'] of the descriptors the listing returns
page_id(p) == <<ToString(p)>>

page_title(p) ==
    IF p = 1 THEN <<"M", "y", "/", "P", ":", "N", "?">>
    ELSE <<" ", "S", "e", "t", "u", "p", " ">>

pdf_filename(p) == OutputFilename(page_title(p), page_id(p), ".pdf")
html_filename(p) == OutputFilename(page_title(p), page_id(p), ".html")

\* the slice of the space a listing request with (start, limit) is answered with
Batch(all, start, limit) == SubSeq(all, start + 1, Min(start + limit, Len(all)))

RECURSIVE SeqsUpTo(_, _)
SeqsUpTo(S, n) ==
    IF n = 0 THEN {<<>>}
    ELSE LET shorter == SeqsUpTo(S, n - 1)
         IN  shorter \cup {Append(s, x) : s \in {t \in shorter : Len(t) = n - 1}, x \in S}

\* responses of an export endpoint: a transport exception, or a status, a
\* content-type header (absent: the empty default) and a body
ContentTypes ==
    {<<>>, <<"text/html">>, <<"application/pdf">>, <<"application/pdf", ";charset=binary">>}

ExportResponses(endpoint) ==
    {[kind |-> "exception"]} \cup
    [kind : {"response"}, status_code : {200, 500}, content_type : ContentTypes,
     content : {EmptyBytes, "pdf bytes of " \o endpoint}]

\* str.startswith
StartsWith(s, prefix) ==
    Len(s) >= Len(prefix) /\ SubSeq(s, 1, Len(prefix)) = prefix

\* response.status_code == 200 and
\* response.headers.get('content-type', '').startswith('application/pdf')
IsPdfResponse(r) ==
    /\ r.kind = "response"
    /\ r.status_code = 200
    /\ StartsWith(r.content_type, PdfMediaType)

\* Python truthiness of an Optional[bytes] / Optional[str]
Truthy(x) == x # None /\ x # EmptyBytes

\* ------------------------------------------------------------------ state
VARIABLES
    remotePages,          \* the pages of the space, in remote order (page ids)
    limit,                \* get_space_pages' limit parameter
    run,                  \* how many times the script has been started
    pc,                   \* where the running script is
    pages,                \* get_space_pages: pages
    start,                \* get_space_pages: start
    requests,             \* listing requests made in this run: [start, ok]
    i,                    \* download_all_pages: index of the page being processed
    successful_downloads,
    failed_downloads,
    pdf_content,          \* download_page: pdf_content
    html_content,         \* download_page: html_content
    calls,                \* remote calls made for the page being processed
    last_write,           \* how the write for the page being processed ended
    files,                \* the output directory: set of [name, content]
    returned,             \* what download_page returned, page by page, this run
    summary,              \* the counts the run logged at its end, if it did
    prev,                 \* how the previous run ended
    san                   \* sanitize_filename: its argument and its result

vars ==
    <<remotePages, limit, run, pc, pages, start, requests, i, successful_downloads,
      failed_downloads, pdf_content, html_content, calls, last_write, files, returned,
      summary, prev, san>>

remoteVars == <<remotePages, limit>>
listVars == <<pages, start, requests>>
tallyVars == <<i, successful_downloads, failed_downloads, returned>>
pageVars == <<pdf_content, html_content, calls, last_write>>

NoSummary == [emitted |-> FALSE, successful |-> 0, failed |-> 0]
NoSan == [filename |-> <<>>, page_id |-> <<>>, called |-> FALSE, safe_title |-> <<>>,
          pdf_filename |-> <<>>]

Running == {"listing", "listed", "page", "export_a", "export_b", "save_pdf",
            "fetch_html", "convert"}
Ended == {"done", "returned_empty", "aborted", "interrupted"}

Exists(fs, name) == \E f \in fs : f.name = name

\* open(path, 'w') followed by a complete write
WriteFile(fs, name, content) ==
    {f \in fs : f.name # name} \cup {[name |-> name, content |-> content]}

\* how "with open(path, mode) as f: f.write(data)" can end: written; open()
\* raised (nothing created); write()/close() raised after open() created or
\* truncated the file
WriteOutcomes == {"ok", "open_error", "write_error"}

AfterWrite(fs, name, content, outcome) ==
    CASE outcome = "ok" -> WriteFile(fs, name, content)
      [] outcome = "open_error" -> fs
      [] outcome = "write_error" -> WriteFile(fs, name, "partial")

\* the locals of a process that has not got anywhere yet
FreshLocals ==
    /\ pages = <<>>
    /\ start = 0
    /\ requests = <<>>
    /\ i = 0
    /\ successful_downloads = 0
    /\ failed_downloads = 0
    /\ pdf_content = None
    /\ html_content = None
    /\ calls = <<>>
    /\ last_write = "none"
    /\ returned = <<>>
    /\ summary = NoSummary

Init ==
    /\ remotePages \in SeqsUpTo(PageIds, MaxPages)
    /\ limit \in 1..MaxLimit
    /\ run = 0
    /\ pc = "idle"
    /\ files = {}
    /\ prev = "none"
    /\ san = NoSan
    /\ FreshLocals

\* ---------------------------------------------------------------- actions
\* a process starts, or is gone: its locals are the fresh ones
ResetLocals ==
    /\ pages' = <<>>
    /\ start' = 0
    /\ requests' = <<>>
    /\ i' = 0
    /\ successful_downloads' = 0
    /\ failed_downloads' = 0
    /\ pdf_content' = None
    /\ html_content' = None
    /\ calls' = <<>>
    /\ last_write' = "none"
    /\ returned' = <<>>
    /\ summary' = NoSummary

\* how a run that has ended looks to the next one: "clean" when every listing
\* request was answered, the loop reached the summary and no page failed
HowEnded ==
    IF /\ pc = "done"
       /\ failed_downloads = 0
       /\ \A k \in 1..Len(requests) : requests[k].outcome = "ok"
    THEN "clean"
    ELSE "other"

\* main() -> ConfluenceDownloader(...).download_all_pages(): a start of the
\* script; the output directory is what earlier runs left
main ==
    /\ pc \in {"idle"} \cup Ended
    /\ run < MaxRuns
    /\ run' = run + 1
    /\ prev' = IF run = 0 THEN "none" ELSE HowEnded
    /\ pc' = "listing"
    /\ ResetLocals
    /\ UNCHANGED <<remoteVars, files, san>>

\* how a listing request can end: answered with well-formed JSON; a
\* RequestException (transport failure, or an error status through
\* raise_for_status); or an exception that is no RequestException (the JSON
\* is not an object, so data.get raises), which get_space_pages lets through
ListOutcomes == {"ok", "request_exception", "raise"}

\* the offset advanced by one page instead of one batch
NextStart_ByOne(s, l) == s + 1

\* start += limit
NextStart(s, l) == s + l

\* if len(current_pages) < limit: break
IsLastBatch(current_pages, l) == Len(current_pages) < l

\* the failure handler dropping what was accumulated
on_request_exception_DropsPages ==
    /\ pc' = "listed"
    /\ pages' = <<>>
    /\ UNCHANGED start

\* except requests.exceptions.RequestException: log and break, pages as they are
on_request_exception ==
    /\ pc' = "listed"
    /\ UNCHANGED <<pages, start>>

\* one iteration of get_space_pages' while loop
get_space_pages ==
    /\ pc = "listing"
    /\ \E outcome \in ListOutcomes :
        /\ requests' = Append(requests, [start |-> start, outcome |-> outcome])
        /\ CASE outcome = "ok" ->
                  LET current_pages == Batch(remotePages, start, limit)
                  IN  /\ pages' = pages \o current_pages
                      /\ IF IsLastBatch(current_pages, limit)
                         THEN /\ pc' = "listed"
                              /\ start' = start
                         ELSE /\ pc' = "listing"
                              /\ start' = NextStart(start, limit)
             [] outcome = "request_exception" -> on_request_exception
             [] outcome = "raise" ->
                  \* main() logs "Unexpected error" and exits
                  /\ pc' = "aborted"
                  /\ UNCHANGED <<pages, start>>
    /\ UNCHANGED <<remoteVars, run, tallyVars, pageVars, files, summary, prev, san>>

\* the empty list not told apart from a non-empty one
NotPages_Never(p) == FALSE

\* if not pages
NotPages(p) == p = <<>>

\* download_all_pages after the listing: "if not pages: ... return", else the
\* counters are set up and the loop is entered
download_all_pages ==
    /\ pc = "listed"
    /\ IF NotPages(pages)
       THEN /\ pc' = "returned_empty"
            /\ UNCHANGED <<i, successful_downloads, failed_downloads>>
       ELSE /\ pc' = "page"
            /\ i' = 1
            /\ successful_downloads' = 0
            /\ failed_downloads' = 0
    /\ UNCHANGED <<remoteVars, run, listVars, returned, pageVars, files, summary, prev,
                   san>>

\* the loop counting a failed page as nothing
ReturnToLoop_NoFailedCount(result) ==
    /\ returned' = Append(returned, result)
    /\ successful_downloads' = successful_downloads + (IF result THEN 1 ELSE 0)
    /\ failed_downloads' = failed_downloads
    /\ i' = i + 1
    /\ pc' = "page"

\* download_page returns result to the loop of download_all_pages, which
\* tallies it and goes on with the next page
ReturnToLoop(result) ==
    /\ returned' = Append(returned, result)
    /\ successful_downloads' = successful_downloads + (IF result THEN 1 ELSE 0)
    /\ failed_downloads' = failed_downloads + (IF result THEN 0 ELSE 1)
    /\ i' = i + 1
    /\ pc' = "page"

\* download_page up to the existence test
download_page ==
    /\ pc = "page"
    /\ i <= Len(pages)
    /\ pdf_content' = None
    /\ html_content' = None
    /\ calls' = <<>>
    /\ last_write' = "none"
    /\ IF Exists(files, pdf_filename(pages[i]))
       THEN ReturnToLoop(TRUE)
       ELSE /\ pc' = "export_a"
            /\ UNCHANGED tallyVars
    /\ UNCHANGED <<remoteVars, run, listVars, files, summary, prev, san>>

\* the end of the loop: the counts are logged
log_summary ==
    /\ pc = "page"
    /\ i > Len(pages)
    /\ summary' = [emitted |-> TRUE, successful |-> successful_downloads,
                    failed |-> failed_downloads]
    /\ pc' = "done"
    /\ UNCHANGED <<remoteVars, run, listVars, tallyVars, pageVars, files, prev, san>>

\* get_page_content_as_pdf, first export URL (pdfpageexport.action)
export_a ==
    /\ pc = "export_a"
    /\ \E r \in ExportResponses("A") :
        IF IsPdfResponse(r)
        THEN pdf_content' = r.content /\ pc' = "save_pdf"
        ELSE pdf_content' = None /\ pc' = "export_b"
    /\ calls' = Append(calls, "A")
    /\ UNCHANGED <<remoteVars, run, listVars, tallyVars, html_content, last_write,
                   files, summary, prev, san>>

\* get_page_content_as_pdf, second export URL (exportword), then return
export_b ==
    /\ pc = "export_b"
    /\ \E r \in ExportResponses("B") :
        pdf_content' = IF IsPdfResponse(r) THEN r.content ELSE None
    /\ pc' = "save_pdf"
    /\ calls' = Append(calls, "B")
    /\ UNCHANGED <<remoteVars, run, listVars, tallyVars, html_content, last_write,
                   files, summary, prev, san>>

\* download_page: "if pdf_content:" and the write of the exported bytes
save_pdf ==
    /\ pc = "save_pdf"
    /\ IF Truthy(pdf_content)
       THEN \E w \in WriteOutcomes :
                /\ files' = AfterWrite(files, pdf_filename(pages[i]), pdf_content, w)
                /\ last_write' = w
                /\ ReturnToLoop(w = "ok")
       ELSE /\ pc' = "fetch_html"
            /\ UNCHANGED <<tallyVars, files, last_write>>
    /\ UNCHANGED <<remoteVars, run, listVars, pdf_content, html_content, calls, summary,
                   prev, san>>

\* what the content-retrieval request can come back with
HtmlResponses ==
    {"transport_error",   \* session.get raises a RequestException
     "http_error",        \* raise_for_status raises HTTPError
     "not_json",          \* response.json() raises
     "not_a_dict",        \* the JSON, or its "body", is null or a list: .get raises
     "no_value",          \* body.export_view.value absent: the '' default
     "value"}             \* body.export_view.value holds markup

\* get_page_html_content: what it returns, or "raise" when the exception is
\* none of requests.exceptions.RequestException.  response.json() raises
\* requests' JSONDecodeError (a RequestException) from requests 2.27 on and a
\* plain ValueError before, so both outcomes are possible for "not_json".
HtmlResults(r) ==
    CASE r \in {"transport_error", "http_error"} -> {None}
      [] r = "not_json" -> {None, "raise"}
      [] r = "not_a_dict" -> {"raise"}
      [] r = "no_value" -> {EmptyBytes}
      [] r = "value" -> {"<p>steps</p>"}

get_page_html_content ==
    /\ pc = "fetch_html"
    /\ \E r \in HtmlResponses : \E res \in HtmlResults(r) :
        IF res = "raise"
        THEN \* nothing between here and main() catches it: the run ends
             /\ pc' = "aborted"
             /\ UNCHANGED html_content
        ELSE /\ pc' = "convert"
             /\ html_content' = res
    /\ calls' = Append(calls, "C")
    /\ UNCHANGED <<remoteVars, run, listVars, tallyVars, pdf_content, last_write, files,
                   summary, prev, san>>

\* html_to_pdf: the PDF is written (True), or WeasyPrint is missing
\* (ImportError) or fails (any other exception), both False; a rendering
\* that fails is taken to leave no file behind
RenderOutcomes == {"ok", "unavailable", "error"}

\* download_page: "if html_content:", the rendering, the raw HTML instead
\* when the rendering fails, and "Failed to download page"
convert ==
    /\ pc = "convert"
    /\ IF Truthy(html_content)
       THEN \E r \in RenderOutcomes :
                IF r = "ok"
                THEN /\ files' = WriteFile(files, pdf_filename(pages[i]), "rendered pdf")
                     /\ last_write' = "ok"
                     /\ ReturnToLoop(TRUE)
                ELSE \E w \in WriteOutcomes :
                        /\ files' = AfterWrite(files, html_filename(pages[i]),
                                               "<h1>title</h1>" \o html_content, w)
                        /\ last_write' = w
                        /\ ReturnToLoop(w = "ok")
       ELSE /\ ReturnToLoop(FALSE)
            /\ UNCHANGED <<files, last_write>>
    /\ UNCHANGED <<remoteVars, run, listVars, pdf_content, html_content, calls, summary,
                   prev, san>>

\* KeyboardInterrupt, delivered between two steps: main() prints and exits,
\* and nothing of the process is left but the files
interrupt ==
    /\ pc \in Running
    /\ pc' = "interrupted"
    /\ ResetLocals
    /\ UNCHANGED <<remoteVars, run, files, prev, san>>

Next ==
    \/ main
    \/ get_space_pages
    \/ download_all_pages
    \/ download_page
    \/ log_summary
    \/ export_a
    \/ export_b
    \/ save_pdf
    \/ get_page_html_content
    \/ convert
    \/ interrupt

Spec == Init /\ [][Next]_vars

\* the listing alone, with the scheduling the single thread gives it: a
\* started request is answered or fails
ListNext ==
    \/ main
    \/ get_space_pages
    \/ interrupt

ListSpec == Init /\ [][ListNext]_vars /\ WF_vars(get_space_pages)

\* ------------------------------------------- sanitize_filename on its own
Fill(n) == [k \in 1..n |-> "x"]

TitleChars == {invalid_chars[k] : k \in 1..Len(invalid_chars)} \cup {"a", " ", "\t"}
TailChars == {"b", " ", "/"}
FillLengths == {0} \cup ((MaxFilenameLen - 3)..(MaxFilenameLen + 1))

\* titles around the length cap: a few arbitrary characters, a run of plain
\* ones, a few arbitrary characters
Titles ==
    {pre \o Fill(n) \o post :
        pre \in SeqsUpTo(TitleChars, MaxPre), n \in FillLengths,
        post \in SeqsUpTo(TailChars, MaxPost)}

SanInit ==
    /\ remotePages = <<>>
    /\ limit = 1
    /\ run = 0
    /\ pc = "idle"
    /\ files = {}
    /\ prev = "none"
    /\ FreshLocals
    /\ \E t \in Titles, id \in {<<"7">>, <<"1", "0", "1">>} :
        san = [NoSan EXCEPT !.filename = t, !.page_id = id]

\* download_page, lines 301-303: safe_title and pdf_filename of a page
make_filename ==
    /\ ~san.called
    /\ san' = [san EXCEPT !.called = TRUE,
                          !.safe_title = sanitize_filename(san.filename),
                          !.pdf_filename = OutputFilename(san.filename, san.page_id, ".pdf")]
    /\ UNCHANGED <<remoteVars, run, pc, listVars, tallyVars, pageVars, files, summary,
                   prev>>

SanNext == make_filename

SanSpec == SanInit /\ [][SanNext]_vars

\* ================================================================ claims
Last(s) == s[Len(s)]

AllAnswered == \A k \in 1..Len(requests) : requests[k].outcome = "ok"

InCascade == pc \in {"export_a", "export_b", "save_pdf", "fetch_html", "convert"}

FileContent(fs, name) == (CHOOSE f \in fs : f.name = name).content

RECURSIVE CountTrue(_)
CountTrue(s) == IF s = <<>> THEN 0 ELSE (IF Head(s) THEN 1 ELSE 0) + CountTrue(Tail(s))

\* C1: when the previous run processed every listed page without a failure
\* (each page saved as native PDF, rendered PDF or raw HTML, or skipped), the
\* next run over the unchanged space skips every page: it makes no
\* page-content request, writes no file, and download_page returns True for
\* each page.
C1_SecondRunSkipsEveryPage ==
    (run >= 2 /\ prev = "clean") =>
        /\ ~InCascade
        /\ calls = <<>>
        /\ last_write = "none"
        /\ \A k \in 1..Len(returned) : returned[k]

\* the space has no page and the one listing request was answered
EmptySpaceListed ==
    /\ remotePages = <<>>
    /\ requests = <<[start |-> 0, outcome |-> "ok"]>>

C3_Pagination ==
    (pc = "listed" /\ AllAnswered) =>
        /\ Len(requests) = (Len(remotePages) \div limit) + 1
        /\ \A k \in 1..Len(requests) : requests[k].start = (k - 1) * limit
        /\ pages = remotePages

C3_Witness ==
    /\ pc = "listed" /\ AllAnswered
    /\ limit = 2
    /\ Len(requests) = 2
    /\ pages = <<2, 2, 1>>

\* C4: for a page whose PDF does not exist yet, when both export calls yield
\* nothing and the content retrieval succeeds (whatever markup it returns,
\* the empty string included), download_page returns True with the rendered
\* .pdf or the raw .html written, and returns False only when the write
\* raised an I/O error.
C4_FallbackOutcome ==
    (/\ pc = "page"
     /\ calls = <<"A", "B", "C">>
     /\ pdf_content = None
     /\ html_content # None) =>
        \/ /\ Last(returned)
           /\ last_write = "ok"
           /\ \/ /\ Exists(files, pdf_filename(pages[i - 1]))
                 /\ FileContent(files, pdf_filename(pages[i - 1])) = "rendered pdf"
              \/ /\ Exists(files, html_filename(pages[i - 1]))
                 /\ FileContent(files, html_filename(pages[i - 1])) # "partial"
        \/ /\ ~Last(returned)
           /\ last_write \in {"open_error", "write_error"}

\* C5: no error of a page's processing ends the loop: a run that entered the
\* per-page loop and was not interrupted has attempted every listed page and
\* emitted its summary.
C5_FailureIsolation ==
    (pc \in {"done", "aborted"} /\ i >= 1) =>
        /\ pc = "done"
        /\ summary.emitted
        /\ Len(returned) = Len(pages)

\* C6: whenever download_page has returned False for a page, no file exists
\* at that page's .pdf path, so the next run does not skip the page.
C6_FailedPageLeavesNoPdf ==
    (pc = "page" /\ returned # <<>> /\ ~Last(returned)) =>
        ~Exists(files, pdf_filename(pages[i - 1]))

\* the number of leading whitespace characters of s
LeadingWhitespace(s) ==
    CHOOSE d \in 0..Len(s) :
        /\ \A k \in 1..d : s[k] \in Whitespace
        /\ d < Len(s) => s[d + 1] \notin Whitespace

\* C7: the sanitized title holds none of < > : " / \ | ? *, has no leading
\* whitespace and is at most 200 characters long; it is the title read from
\* its first non-blank character on, each of the nine characters replaced by
\* an underscore and every other character kept in place; and the file name
\* is that string followed by '_', the page id and the extension, so the cap
\* applies before the suffix.
C7_Sanitize ==
    san.called =>
        LET title == san.filename
            safe == san.safe_title
            name == san.pdf_filename
            d == LeadingWhitespace(title)
            bad == {"<", ">", ":", "\"", "/", "\\", "|", "?", "*"}
        IN  /\ \A k \in 1..Len(safe) : safe[k] \notin bad
            /\ safe # <<>> => safe[1] \notin {" ", "\t", "\n"}
            /\ Len(safe) <= 200
            /\ Len(safe) + d <= Len(title)
            /\ \A k \in 1..Len(safe) :
                 safe[k] = IF title[k + d] \in bad THEN "_" ELSE title[k + d]
            /\ Len(safe) < 200 =>
                 /\ \A k \in (Len(safe) + d + 1)..Len(title) :
                      title[k] \in {" ", "\t", "\n"}
                 /\ safe # <<>> => safe[Len(safe)] \notin {" ", "\t", "\n"}
            /\ name = safe \o <<"_">> \o san.page_id \o <<".pdf">>

C7_Witness ==
    /\ san.called
    /\ Len(san.filename) > 200
    /\ Len(san.safe_title) = 200
    /\ san.filename[1] = "?"
    /\ san.safe_title[1] = "_"
    /\ Len(san.pdf_filename) > 200

\* C8: the remote calls of a page are made in the order A, B, content
\* retrieval, each only when every earlier one yielded nothing; a step that
\* is answered with status 200 and a PDF content type yields its bytes, these
\* are what is written, and no later step is called; when all three yield
\* nothing download_page returns False.
C8_CascadeOrder ==
    /\ calls \in {<<>>, <<"A">>, <<"A", "B">>, <<"A", "B", "C">>}
    /\ (pc \in {"export_b", "fetch_html", "convert"} \/ (calls # <<>> /\ Last(calls) = "C"))
          => pdf_content = None
    /\ (pc = "page" /\ calls # <<>> /\ pdf_content # None) =>
          /\ pdf_content = (IF calls = <<"A">> THEN "pdf bytes of A" ELSE "pdf bytes of B")
          /\ last_write = "ok" =>
               FileContent(files, pdf_filename(pages[i - 1])) = pdf_content
    /\ (pc = "page" /\ calls = <<"A", "B", "C">> /\ pdf_content = None
          /\ html_content = None) => ~Last(returned)

\* what get_space_pages has done and returns when its last request failed at
\* transport level: the requests before it were answered, at start = 0,
\* limit, ..., and pages holds their batches, all full, in order
C9_ListingStops ==
    (pc = "listed" /\ Last(requests).outcome = "request_exception") =>
        LET k == Len(requests)
        IN  /\ \A j \in 1..(k - 1) :
                 requests[j] = [start |-> (j - 1) * limit, outcome |-> "ok"]
            /\ requests[k].start = (k - 1) * limit
            /\ Len(pages) = (k - 1) * limit
            /\ pages = SubSeq(remotePages, 1, (k - 1) * limit)

\* C9: when a listing request fails at transport level after k-1 answered
\* ones, get_space_pages makes no further request and returns the k-1 full
\* batches concatenated (nothing when k = 1); and a call of get_space_pages
\* always comes to its end.
C9_ListingUnderFailure ==
    /\ []C9_ListingStops
    /\ (pc = "listing") ~> (pc # "listing")

C9_Witness ==
    /\ pc = "listed"
    /\ Len(requests) = 3
    /\ Last(requests).outcome = "request_exception"
    /\ pages = <<1, 2>>

\* C10: in the per-page loop the two counters add up to the number of pages
\* processed so far, the pages are processed one by one in listing order, the
\* successful count is the number of pages download_page returned True for,
\* and the summary's counts add up to the number of listed pages.
C10_Tally ==
    (pc \in {"page", "done", "aborted"} \cup {"export_a", "export_b", "save_pdf",
             "fetch_html", "convert"} /\ i >= 1) =>
        /\ Len(returned) = i - 1
        /\ successful_downloads + failed_downloads = Len(returned)
        /\ successful_downloads = CountTrue(returned)
        /\ i <= Len(pages) + 1
        /\ InCascade => i <= Len(pages)
        /\ pc = "done" <=> summary.emitted
        /\ summary.emitted =>
             /\ i = Len(pages) + 1
             /\ summary.successful = successful_downloads
             /\ summary.failed = failed_downloads
             /\ summary.successful + summary.failed = Len(pages)

C10_Witness ==
    /\ pc = "done"
    /\ run = 2
    /\ Len(pages) = 3
    /\ summary.successful = 2
    /\ summary.failed = 1
    /\ calls = <<>>

====
